---- MODULE Spec2Model ----
(***************************************************************************)
(* A model of the RAG chatbot: the session object (Chatbot), its engine    *)
(* (RAGEngine), the document loader (DataLoader) and the persisted Chroma  *)
(* collection.  Texts are sequences of one-character strings, so that      *)
(* lower-casing, substring tests, suffix extraction, chunking and the      *)
(* export format are computed as the code computes them.                   *)
(***************************************************************************)
EXTENDS Integers, Sequences, FiniteSets, TLC

\* ---------------------------------------------------------------- bounds
\* successful asks in one run (each takes one reading of the clock)
MaxClock == 2
\* entries the persisted collection may hold
MaxChunks == 3
\* the chunk_size and chunk_overlap the sessions are constructed with
ChunkSize == 8
ChunkOverlap == 2
\* entries the persisted collection may hold in the runs of SpecLargeIndex
MaxIndexed == 4

\* ------------------------------------------------------ program constants
\* search_kwargs={"k": 3}
TopK == 3
\* source['content'][:200]
PreviewLen == 200
\* "="*80
DelimLen == 80

NoValue == "None"

\* ------------------------------------------------------------------ text
UpperCase == <<"A","B","C","D","E","F","G","H","I","J","K","L","M","N","O","P","Q","R","S","T","U","V","W","X","Y","Z">>
LowerCase == <<"a","b","c","d","e","f","g","h","i","j","k","l","m","n","o","p","q","r","s","t","u","v","w","x","y","z">>

\* str.lower() on one character
LowerChar(c) ==
  IF \E i \in 1..Len(UpperCase) : UpperCase[i] = c
  THEN LowerCase[CHOOSE i \in 1..Len(UpperCase) : UpperCase[i] = c]
  ELSE c

\* str.lower()
Lower(s) == [i \in 1..Len(s) |-> LowerChar(s[i])]

\* keyword in s
Contains(keyword, s) ==
  \E i \in 0..(Len(s) - Len(keyword)) : SubSeq(s, i + 1, i + Len(keyword)) = keyword

\* s[:n]
Take(s, n) == SubSeq(s, 1, IF Len(s) < n THEN Len(s) ELSE n)

RECURSIVE Concat(_)
Concat(ss) == IF ss = <<>> THEN <<>> ELSE Head(ss) \o Concat(Tail(ss))

\* ---------------------------------------------------------------- inputs
\* the questions a user asks, by key
QuestionText ==
  [ q_created   |-> <<"W","h","o"," ","C","r","e","a","t","e","d"," ","Y","o","u","?">>,
    q_creator   |-> <<"W","H","O"," ","I","S"," ","Y","O","U","R"," ","C","R","E","A","T","O","R">>,
    q_made      |-> <<"w","h","o"," ","m","a","d","e"," ","y","o","u">>,
    q_two_lines |-> <<"H","i","\n","T","i","m","e","s","t","a","m","p",":"," ","0">> ]

Questions == DOMAIN QuestionText

\* the texts the chat model may generate, by key, and the canned answer
CannedAnswer == <<"I"," ","w","a","s"," ","c","r","e","a","t","e","d"," ","b","y"," ","T","a","r","u","n"," ","A","g","a","r","w","a","l",".">>

AnswerText ==
  [ a_canned |-> CannedAnswer,
    a_field  |-> <<"A","I"," ","i","s"," ","a"," ","f","i","e","l","d",".">> ]

Generated == {"a_field"}

creator_keywords ==
  << <<"w","h","o"," ","c","r","e","a","t","e","d"," ","y","o","u">>,
     <<"w","h","o"," ","i","s"," ","y","o","u","r"," ","c","r","e","a","t","o","r">>,
     <<"y","o","u","r"," ","c","r","e","a","t","o","r">> >>

\* the keyword test without lower()
IsCreatorQuestionCaseSensitive(question) ==
  \E i \in 1..Len(creator_keywords) : Contains(creator_keywords[i], question)

\* any(keyword in question.lower() for keyword in creator_keywords)
IsCreatorQuestion(question) ==
  \E i \in 1..Len(creator_keywords) : Contains(creator_keywords[i], Lower(question))

\* ----------------------------------------------------------------- state
VARIABLES
  conversation_history,  \* Chatbot.conversation_history
  memory,                \* RAGEngine.memory: the (question, answer) pairs it buffers
  vector_store,          \* RAGEngine.vector_store
  qa_chain,              \* RAGEngine.qa_chain
  chroma,                \* the collection persisted under persist_directory
  clock,                 \* datetime.now()
  pc,                    \* "ready" for a call, or "done": a call has just ended
  last,                  \* the call that has just ended: its arguments, outcome and outputs
  pre,                   \* the state that call started from
  asked,                 \* history: the entries ask returned since the history was last emptied
  added                  \* history: every chunk an ingestion has added under persist_directory

vars == <<conversation_history, memory, vector_store, qa_chain, chroma, clock, pc, last, pre,
          asked, added>>

NoError == [type |-> "", text |-> "", detail |-> <<>>]

Error(type, text, detail) == [type |-> type, text |-> text, detail |-> detail]

\* a call that has produced nothing yet
Call(op, arg) ==
  [ op |-> op, arg |-> arg, outcome |-> "ok", error |-> NoError,
    ret |-> <<>>, queried |-> FALSE, generated |-> FALSE, chat_history |-> <<>>,
    searched |-> <<>>, reader_ran |-> FALSE, written |-> <<>> ]

Raised(op, arg, error) == [Call(op, arg) EXCEPT !.outcome = "error", !.error = error]

Snapshot ==
  [ conversation_history |-> conversation_history, memory |-> memory,
    vector_store |-> vector_store, qa_chain |-> qa_chain, chroma |-> chroma ]

Init ==
  /\ conversation_history = <<>>
  /\ memory = <<>>
  /\ vector_store = NoValue
  /\ qa_chain = NoValue
  /\ chroma = <<>>
  /\ clock = 0
  /\ pc = "ready"
  /\ last = Call("", "")
  /\ pre = [ conversation_history |-> <<>>, memory |-> <<>>, vector_store |-> NoValue,
             qa_chain |-> NoValue, chroma |-> <<>> ]
  /\ asked = <<>>
  /\ added = <<>>

\* ----------------------------------------------------------- file system
\* the paths a caller passes, by key: what the path names, and for a file
\* whether its reader can read it and the page texts the reader returns; for a
\* directory the files below it
NoFiles == <<>>

FS ==
  [ p_missing |-> [ name |-> <<"n","o","n","e","x","i","s","t","e","n","t","_","f","i","l","e",".","t","x","t">>,
                    kind |-> "missing", readable |-> FALSE, pages |-> <<>>, files |-> NoFiles ],
    p_xyz     |-> [ name |-> <<"t","e","s","t",".","x","y","z">>,
                    kind |-> "file", readable |-> TRUE,
                    pages |-> << <<"t","e","s","t">> >>, files |-> NoFiles ],
    p_notes   |-> [ name |-> <<"n","o","t","e","s",".","T","X","T">>,
                    kind |-> "file", readable |-> TRUE,
                    pages |-> << <<"A","I","f","i","e","l","d">> >>, files |-> NoFiles ],
    p_blank   |-> [ name |-> <<"b","l","a","n","k",".","t","x","t">>,
                    kind |-> "file", readable |-> TRUE, pages |-> << <<>> >>, files |-> NoFiles ],
    p_broken  |-> [ name |-> <<"b","r","o","k","e","n",".","p","d","f">>,
                    kind |-> "file", readable |-> FALSE, pages |-> <<>>, files |-> NoFiles ],
    p_docs    |-> [ name |-> <<"d","o","c","s">>,
                    kind |-> "dir", readable |-> TRUE, pages |-> <<>>,
                    files |-> << [ name |-> <<"a",".","t","x","t">>, readable |-> TRUE,
                                   pages |-> << <<"A","I","f","i","e","l","d">> >> ],
                                 [ name |-> <<"b",".","t","x","t">>, readable |-> FALSE,
                                   pages |-> <<>> ],
                                 [ name |-> <<"c",".","p","d","f">>, readable |-> TRUE,
                                   pages |-> << <<"n","e","u","r","a","l">> >> ],
                                 [ name |-> <<"d",".","x","y","z">>, readable |-> TRUE,
                                   pages |-> << <<"t","e","s","t">> >> ] >> ],
    p_other   |-> [ name |-> <<"o","t","h","e","r">>,
                    kind |-> "dir", readable |-> TRUE, pages |-> <<>>,
                    files |-> << [ name |-> <<"d",".","x","y","z">>, readable |-> TRUE,
                                   pages |-> << <<"t","e","s","t">> >> ] >> ] ]

Paths == DOMAIN FS

\* the raw texts a caller passes to process_text, by key
RawText ==
  [ t_empty |-> <<>>,
    t_deep  |-> <<"d","e","e","p","l","e","a","r","n","i","n","g">> ]

Texts == DOMAIN RawText

\* ----------------------------------------------------------- DataLoader
supported_extensions ==
  << <<".","p","d","f">>, <<".","d","o","c","x">>, <<".","t","x","t">> >>

\* Path.suffix of a file name: from its last dot, none when the only dot leads
Suffix(name) ==
  IF \E i \in 2..Len(name) : name[i] = "."
  THEN LET i == CHOOSE j \in 2..Len(name) :
                  name[j] = "." /\ \A h \in (j + 1)..Len(name) : name[h] # "."
       IN SubSeq(name, i, Len(name))
  ELSE <<>>

\* a name matches the glob **/*<extension>
Matches(name, extension) ==
  /\ Len(name) >= Len(extension)
  /\ SubSeq(name, Len(name) - Len(extension) + 1, Len(name)) = extension

\* RecursiveCharacterTextSplitter on a text without separators: pieces of
\* chunk_size characters, each starting chunk_overlap before the end of the
\* one before it
RECURSIVE Windows(_, _)
Windows(text, start) ==
  IF start + ChunkSize >= Len(text)
  THEN <<SubSeq(text, start + 1, Len(text))>>
  ELSE <<SubSeq(text, start + 1, start + ChunkSize)>>
       \o Windows(text, start + ChunkSize - ChunkOverlap)

split_text(text) == IF text = <<>> THEN <<>> ELSE Windows(text, 0)

\* text_splitter.split_documents(documents): the chunks of every document, in
\* order, each with its document's metadata
RECURSIVE split_documents(_)
split_documents(documents) ==
  IF documents = <<>>
  THEN <<>>
  ELSE LET d == Head(documents)
           pieces == split_text(d.page_content)
       IN [i \in 1..Len(pieces) |-> [page_content |-> pieces[i], metadata |-> d.metadata]]
          \o split_documents(Tail(documents))

\* loader.load(): one document per page text
Load(name, pages) ==
  [i \in 1..Len(pages) |-> [page_content |-> pages[i], metadata |-> [source |-> name]]]

Loaded(documents, reader_ran) ==
  [outcome |-> "ok", error |-> NoError, documents |-> documents, reader_ran |-> reader_ran]

NotLoaded(error, reader_ran) ==
  [outcome |-> "error", error |-> error, documents |-> <<>>, reader_ran |-> reader_ran]

\* load_document without its extension check: any other file is read as text
load_documentAsText(p) ==
  LET f == FS[p]
  IN IF f.kind = "missing"
     THEN NotLoaded(Error("FileNotFoundError", "File not found: ", f.name), FALSE)
     ELSE IF ~f.readable
     THEN NotLoaded(Error("LoaderError", "", f.name), TRUE)
     ELSE Loaded(split_documents(Load(f.name, f.pages)), TRUE)

\* DataLoader.load_document(file_path)
load_document(p) ==
  LET f == FS[p]
      extension == Lower(Suffix(f.name))
  IN IF f.kind = "missing"
     THEN NotLoaded(Error("FileNotFoundError", "File not found: ", f.name), FALSE)
     ELSE IF \A i \in 1..Len(supported_extensions) : supported_extensions[i] # extension
     THEN NotLoaded(Error("ValueError", "Unsupported file extension: ", extension), FALSE)
     ELSE IF ~f.readable
     THEN NotLoaded(Error("LoaderError", "", f.name), TRUE)
     ELSE Loaded(split_documents(Load(f.name, f.pages)), TRUE)

\* the documents of the files among fs, in order
RECURSIVE LoadAll(_)
LoadAll(fs) ==
  IF fs = <<>> THEN <<>> ELSE Load(Head(fs).name, Head(fs).pages) \o LoadAll(Tail(fs))

\* DirectoryLoader(directory, glob="**/*<extension>").load() inside the
\* try/except of load_directory: the documents of the matching files, or none
\* at all when the reader raises on one of them
LoadExtension(files, extension) ==
  LET matching == SelectSeq(files, LAMBDA f : Matches(f.name, extension))
  IN IF \E i \in 1..Len(matching) : ~matching[i].readable
     THEN <<>>
     ELSE LoadAll(matching)

\* DataLoader.load_directory(directory_path)
load_directory(p) ==
  LET f == FS[p]
      all_documents ==
        Concat([i \in 1..Len(supported_extensions) |->
                  LoadExtension(f.files, supported_extensions[i])])
  IN IF f.kind = "missing"
     THEN NotLoaded(Error("FileNotFoundError", "Directory not found: ", f.name), FALSE)
     ELSE Loaded(split_documents(all_documents), TRUE)

\* DataLoader.process_text(text)
process_text(t) ==
  Loaded(split_documents(<< [page_content |-> RawText[t], metadata |-> [source |-> <<>>]] >>),
         FALSE)

\* ------------------------------------------------------------ RAGEngine
\* from_documents on a collection created anew on every call
FromDocumentsOverwriting(collection, documents) == documents

\* Chroma.from_documents(documents, embedding, persist_directory): the
\* collection under persist_directory is opened (created when absent) and the
\* documents are added to it
FromDocuments(collection, documents) == collection \o documents

\* the collection a retriever built on a vector store handle searches
Searched(handle) == chroma

\* a search without the k: every entry is returned
SelectionsWithoutK(n) == {1..n}

\* the k of n entries a search can return: any k of them
Selections(n) ==
  LET k == IF n < TopK THEN n ELSE TopK
  IN {S \in SUBSET (1..n) : Cardinality(S) = k}

\* the entries of a collection at the positions S, in the order of the collection
RECURSIVE Selected(_, _, _)
Selected(collection, S, i) ==
  IF i > Len(collection)
  THEN <<>>
  ELSE (IF i \in S THEN <<collection[i]>> ELSE <<>>) \o Selected(collection, S, i + 1)

\* retriever with search_kwargs={"k": 3}: the k nearest entries.  Which entries
\* are nearest is decided by the embedding provider: any k of them.  They are
\* kept in the order of the collection: nothing in the program reads the rank
similarity_search(collection) ==
  {Selected(collection, S, 1) : S \in Selections(Len(collection))}

\* the dictionaries query() builds from the chain's source documents
SourceDocuments(docs) ==
  [i \in 1..Len(docs) |-> [content |-> docs[i].page_content, metadata |-> docs[i].metadata]]

NoResponse ==
  [ outcome |-> "error", error |-> NoError, answer |-> "", source_documents |-> <<>>,
    memory |-> memory, queried |-> TRUE, generated |-> FALSE, chat_history |-> <<>>,
    searched |-> <<>> ]

\* query without its guard on qa_chain: it answers from whatever is stored
queryWithoutGuard(q) ==
  {[ NoResponse EXCEPT !.outcome = "ok", !.answer = "a_field",
                       !.source_documents = SourceDocuments(chroma) ]}

\* RAGEngine.query(question): every outcome the call can have.  The chain reads
\* the buffered memory, retrieves, generates once and then saves the exchange to
\* the memory; a provider failure leaves the memory as it was.
query(q) ==
  IF qa_chain = NoValue
  THEN {[NoResponse EXCEPT !.error =
           Error("ValueError", "QA chain not initialized. Please create vector store first.", <<>>)]}
  ELSE {[NoResponse EXCEPT !.error = Error("ProviderError", "", <<>>)]}
       \cup
       {[ outcome |-> "ok", error |-> NoError, answer |-> a,
          source_documents |-> SourceDocuments(docs),
          memory |-> Append(memory, [question |-> q, answer |-> a]),
          queried |-> TRUE, generated |-> TRUE, chat_history |-> memory,
          searched |-> Searched(qa_chain) ] :
            a \in Generated, docs \in similarity_search(Searched(qa_chain))}

\* RAGEngine.create_vector_store(documents): every outcome the call can have.
\* fault names the step that raises: none, the embedding inside
\* Chroma.from_documents, or _create_qa_chain after the store was assigned.
create_vector_store(documents, fault) ==
  IF documents = <<>>
  THEN [ outcome |-> "error",
         error |-> Error("ValueError", "No documents provided for vector store creation", <<>>),
         vector_store |-> vector_store, qa_chain |-> qa_chain, chroma |-> chroma ]
  ELSE IF fault = "embedding"
  THEN [ outcome |-> "error", error |-> Error("ProviderError", "", <<>>),
         vector_store |-> vector_store, qa_chain |-> qa_chain, chroma |-> chroma ]
  ELSE IF fault = "chain"
  THEN [ outcome |-> "error", error |-> Error("ChainError", "", <<>>),
         vector_store |-> "Chroma", qa_chain |-> qa_chain,
         chroma |-> FromDocuments(chroma, documents) ]
  ELSE [ outcome |-> "ok", error |-> NoError,
         vector_store |-> "Chroma", qa_chain |-> "Chroma",
         chroma |-> FromDocuments(chroma, documents) ]

Faults == {"none", "embedding", "chain"}

\* RAGEngine.clear_memory()
clear_memory == <<>>

\* -------------------------------------------------------------- Chatbot
\* the response ask() works from: the canned one for a creator question,
\* RAGEngine.query's otherwise
Responses(q) ==
  IF IsCreatorQuestion(QuestionText[q])
  THEN {[ outcome |-> "ok", error |-> NoError, answer |-> "a_canned",
          source_documents |-> <<>>, memory |-> memory, queried |-> FALSE,
          generated |-> FALSE, chat_history |-> <<>>, searched |-> <<>> ]}
  ELSE query(q)

\* the entry ask() builds; the timestamp is kept as the clock reading and
\* written in ISO format by isoformat
ConversationEntry(q, response) ==
  [ timestamp |-> clock, question |-> q, answer |-> response.answer,
    sources |-> response.source_documents ]

\* insert(0, conversation_entry) in place of append
Prepended(history, entry) == <<entry>> \o history

\* self.conversation_history.append(conversation_entry)
Appended(history, entry) == Append(history, entry)

\* Chatbot.ask(question)
Ask(q) ==
  /\ pc = "ready"
  /\ clock < MaxClock
  /\ \E response \in Responses(q) :
       /\ pre' = Snapshot
       /\ pc' = "done"
       /\ IF response.outcome = "ok"
          THEN /\ conversation_history' =
                    Appended(conversation_history, ConversationEntry(q, response))
               /\ memory' = response.memory
               /\ clock' = clock + 1
               /\ asked' = Append(asked, ConversationEntry(q, response))
               /\ last' = [Call("ask", q) EXCEPT
                             !.ret = <<ConversationEntry(q, response)>>,
                             !.queried = response.queried,
                             !.generated = response.generated,
                             !.chat_history = response.chat_history,
                             !.searched = response.searched]
          ELSE /\ last' = [Raised("ask", q, response.error) EXCEPT !.queried = response.queried]
               /\ UNCHANGED <<conversation_history, memory, clock, asked>>
  /\ UNCHANGED <<vector_store, qa_chain, chroma, added>>

\* clear_conversation that also drops the engine's store and chain
ClearConversationAndEngine ==
  /\ pc = "ready"
  /\ pre' = Snapshot
  /\ pc' = "done"
  /\ conversation_history' = <<>>
  /\ memory' = clear_memory
  /\ vector_store' = NoValue
  /\ qa_chain' = NoValue
  /\ asked' = <<>>
  /\ last' = Call("clear_conversation", "")
  /\ UNCHANGED <<chroma, clock, added>>

\* Chatbot.clear_conversation()
ClearConversation ==
  /\ pc = "ready"
  /\ pre' = Snapshot
  /\ pc' = "done"
  /\ conversation_history' = <<>>
  /\ memory' = clear_memory
  /\ asked' = <<>>
  /\ last' = Call("clear_conversation", "")
  /\ UNCHANGED <<vector_store, qa_chain, chroma, clock, added>>

\* what load_documents gets from the DataLoader for a path
Dispatch(p) ==
  IF FS[p].kind = "file"
  THEN load_document(p)
  ELSE IF FS[p].kind = "dir"
  THEN load_directory(p)
  ELSE NotLoaded(Error("ValueError", "Invalid path: ", FS[p].name), FALSE)

\* the tail of load_documents and process_text: index the documents when there
\* are any, and pass on what was raised; cap: the entries the collection may
\* hold in the run
IngestWithin(cap, op, arg, loaded, fault) ==
  /\ pre' = Snapshot
  /\ pc' = "done"
  /\ IF loaded.outcome = "error"
     THEN /\ fault = "none"
          /\ last' = [Raised(op, arg, loaded.error) EXCEPT !.reader_ran = loaded.reader_ran]
          /\ UNCHANGED <<vector_store, qa_chain, chroma, added>>
     ELSE IF loaded.documents = <<>>
     THEN /\ fault = "none"
          /\ last' = [Call(op, arg) EXCEPT !.reader_ran = loaded.reader_ran]
          /\ UNCHANGED <<vector_store, qa_chain, chroma, added>>
     ELSE LET created == create_vector_store(loaded.documents, fault)
          IN /\ Len(chroma) + Len(loaded.documents) <= cap
             /\ added' = IF fault = "embedding" THEN added ELSE added \o loaded.documents
             /\ vector_store' = created.vector_store
             /\ qa_chain' = created.qa_chain
             /\ chroma' = created.chroma
             /\ last' = [Call(op, arg) EXCEPT !.outcome = created.outcome,
                                              !.error = created.error,
                                              !.reader_ran = loaded.reader_ran]
  /\ UNCHANGED <<conversation_history, memory, clock, asked>>

\* the same tail with a chain that is built on a memory of its own: a
\* successful indexing leaves the engine with an empty memory
IngestWithNewMemory(op, arg, loaded, fault) ==
  /\ pre' = Snapshot
  /\ pc' = "done"
  /\ IF loaded.outcome = "error"
     THEN /\ fault = "none"
          /\ last' = [Raised(op, arg, loaded.error) EXCEPT !.reader_ran = loaded.reader_ran]
          /\ UNCHANGED <<vector_store, qa_chain, chroma, added, memory>>
     ELSE IF loaded.documents = <<>>
     THEN /\ fault = "none"
          /\ last' = [Call(op, arg) EXCEPT !.reader_ran = loaded.reader_ran]
          /\ UNCHANGED <<vector_store, qa_chain, chroma, added, memory>>
     ELSE LET created == create_vector_store(loaded.documents, fault)
          IN /\ Len(chroma) + Len(loaded.documents) <= MaxChunks
             /\ added' = IF fault = "embedding" THEN added ELSE added \o loaded.documents
             /\ vector_store' = created.vector_store
             /\ qa_chain' = created.qa_chain
             /\ chroma' = created.chroma
             /\ memory' = IF created.outcome = "ok" THEN <<>> ELSE memory
             /\ last' = [Call(op, arg) EXCEPT !.outcome = created.outcome,
                                              !.error = created.error,
                                              !.reader_ran = loaded.reader_ran]
  /\ UNCHANGED <<conversation_history, clock, asked>>

\* the tail with the collection within MaxChunks
Ingest(op, arg, loaded, fault) == IngestWithin(MaxChunks, op, arg, loaded, fault)

\* Chatbot.load_documents(path)
LoadDocuments(p, fault) ==
  /\ pc = "ready"
  /\ Ingest("load_documents", p, Dispatch(p), fault)

\* Chatbot.process_text(text)
ProcessText(t, fault) ==
  /\ pc = "ready"
  /\ Ingest("process_text", t, process_text(t), fault)

Digits == <<"0","1","2","3","4","5","6","7","8","9">>

\* datetime.isoformat() of a clock reading
isoformat(t) ==
  <<"2","0","2","6","-","1","1","-","0","1","T","0","7",":","3","1",":","0">>
  \o <<Digits[(t % 10) + 1]>>

Delimiter == [i \in 1..DelimLen |-> "="]

\* what export_conversation writes for one source of an entry
SourceLine(source) == <<"-"," ">> \o Take(source.content, PreviewLen) \o <<".",".",".","\n">>

\* what export_conversation writes for one entry
Block(entry) ==
  <<"T","i","m","e","s","t","a","m","p",":"," ">> \o isoformat(entry.timestamp) \o <<"\n">>
  \o <<"Q","u","e","s","t","i","o","n",":"," ">> \o QuestionText[entry.question] \o <<"\n">>
  \o <<"A","n","s","w","e","r",":"," ">> \o AnswerText[entry.answer] \o <<"\n">>
  \o <<"S","o","u","r","c","e","s",":","\n">>
  \o Concat([i \in 1..Len(entry.sources) |-> SourceLine(entry.sources[i])])
  \o <<"\n">> \o Delimiter \o <<"\n","\n">>

\* the text export_conversation writes for a history
ExportText(history) == Concat([i \in 1..Len(history) |-> Block(history[i])])

\* Chatbot.export_conversation(file_path); failed: the directory or the file
\* cannot be written
ExportConversation(failed) ==
  /\ pc = "ready"
  /\ pre' = Snapshot
  /\ pc' = "done"
  /\ last' = IF failed
             THEN Raised("export_conversation", "", Error("OSError", "", <<>>))
             ELSE [Call("export_conversation", "") EXCEPT
                     !.written = ExportText(conversation_history)]
  /\ UNCHANGED <<conversation_history, memory, vector_store, qa_chain, chroma, clock,
                 asked, added>>

\* a new session that empties persist_directory
NewSessionOnEmptyDirectory ==
  /\ pc = "ready"
  /\ pre' = Snapshot
  /\ pc' = "done"
  /\ conversation_history' = <<>>
  /\ memory' = <<>>
  /\ vector_store' = NoValue
  /\ qa_chain' = NoValue
  /\ chroma' = <<>>
  /\ asked' = <<>>
  /\ last' = Call("__init__", "")
  /\ UNCHANGED <<clock, added>>

\* Chatbot(): a new session over the same persist_directory
NewSession ==
  /\ pc = "ready"
  /\ pre' = Snapshot
  /\ pc' = "done"
  /\ conversation_history' = <<>>
  /\ memory' = <<>>
  /\ vector_store' = NoValue
  /\ qa_chain' = NoValue
  /\ asked' = <<>>
  /\ last' = Call("__init__", "")
  /\ UNCHANGED <<chroma, clock, added>>

\* the call returns: its caller has the result and the session waits for the
\* next call
Return ==
  /\ pc = "done"
  /\ pc' = "ready"
  /\ last' = Call("", "")
  /\ pre' = Snapshot
  /\ UNCHANGED <<conversation_history, memory, vector_store, qa_chain, chroma, clock,
                 asked, added>>

Next ==
  \/ \E q \in Questions : Ask(q)
  \/ ClearConversation
  \/ \E p \in Paths, fault \in Faults : LoadDocuments(p, fault)
  \/ \E t \in Texts, fault \in Faults : ProcessText(t, fault)
  \/ \E failed \in BOOLEAN : ExportConversation(failed)
  \/ NewSession
  \/ Return

Spec == Init /\ [][Next]_vars

\* ------------------------------------------------- a collection above k
\* The same session over a collection that grows beyond the k of the
\* retriever: the paths, texts and questions are those that index and search.
LargePaths == {"p_notes"}

LargeTexts == {"t_deep"}

LargeQuestions == {"q_created", "q_made"}

\* Chatbot.load_documents(path), the collection within MaxIndexed
LoadDocumentsLarge(p) ==
  /\ pc = "ready"
  /\ IngestWithin(MaxIndexed, "load_documents", p, Dispatch(p), "none")

\* Chatbot.process_text(text), the collection within MaxIndexed
ProcessTextLarge(t) ==
  /\ pc = "ready"
  /\ IngestWithin(MaxIndexed, "process_text", t, process_text(t), "none")

NextLargeIndex ==
  \/ \E q \in LargeQuestions : Ask(q)
  \/ \E p \in LargePaths : LoadDocumentsLarge(p)
  \/ \E t \in LargeTexts : ProcessTextLarge(t)
  \/ ClearConversation
  \/ Return

SpecLargeIndex == Init /\ [][NextLargeIndex]_vars

\* ---------------------------------------------------------------- claims
IsPrefix(s, t) == Len(s) <= Len(t) /\ SubSeq(t, 1, Len(s)) = s

SameLetter(a, b) ==
  a = b \/ \E i \in 1..Len(UpperCase) : {a, b} = {UpperCase[i], LowerCase[i]}

EqualIgnoringCase(s, t) ==
  Len(s) = Len(t) /\ \A i \in 1..Len(s) : SameLetter(s[i], t[i])

\* the question holds one of the creator patterns in some letter case
MatchesCreatorPattern(question) ==
  \E k \in 1..Len(creator_keywords) :
    \E i \in 0..(Len(question) - Len(creator_keywords[k])) :
      EqualIgnoringCase(SubSeq(question, i + 1, i + Len(creator_keywords[k])),
                        creator_keywords[k])

IndexUnchanged ==
  /\ vector_store = pre.vector_store
  /\ qa_chain = pre.qa_chain
  /\ chroma = pre.chroma

ConversationUnchanged ==
  /\ conversation_history = pre.conversation_history
  /\ memory = pre.memory

\* C1: clear_conversation leaves the conversation history empty and the vector
\* store, the QA chain and the persisted collection as they were; where an ask
\* could be answered before the clear, an ask of a non-creator question can
\* be answered after it, and every answer searches the chunks indexed before
\* the clear.
C1_ClearKeepsIndex ==
  last.op = "clear_conversation" =>
    /\ conversation_history = <<>>
    /\ IndexUnchanged
    /\ \A q \in Questions :
         ~MatchesCreatorPattern(QuestionText[q]) =>
           /\ pre.qa_chain # NoValue =>
                \E response \in Responses(q) : response.outcome = "ok"
           /\ \A response \in Responses(q) :
                response.outcome = "ok" => response.searched = pre.chroma

C1_Witness ==
  /\ last.op = "clear_conversation"
  /\ Len(pre.conversation_history) = 2
  /\ pre.qa_chain # NoValue
  /\ Len(pre.chroma) >= 2

\* C2 as stated: every ask on a session that has ingested nothing fails with
\* the ValueError of RAGEngine.query and appends no turn.
C2_EveryQuestionFails ==
  (last.op = "ask" /\ pre.vector_store = NoValue) =>
    /\ last.outcome = "error"
    /\ last.error.type = "ValueError"
    /\ conversation_history = pre.conversation_history

\* C2 as amended: an ask of a question that holds no creator pattern, on a
\* session that has ingested nothing, fails with the ValueError of
\* RAGEngine.query ("QA chain not initialized...") and appends no turn.
C2_OtherQuestionFails ==
  (/\ last.op = "ask"
   /\ pre.vector_store = NoValue
   /\ ~MatchesCreatorPattern(QuestionText[last.arg])) =>
    /\ last.outcome = "error"
    /\ last.error.type = "ValueError"
    /\ last.error.text = "QA chain not initialized. Please create vector store first."
    /\ last.queried
    /\ last.ret = <<>>
    /\ ConversationUnchanged

C2_Witness ==
  /\ last.op = "ask"
  /\ pre.vector_store = NoValue
  /\ last.arg = "q_made"
  /\ last.outcome = "error"
  /\ Len(conversation_history) = 1

\* C3: an ask of a question that holds a creator pattern in any letter case
\* returns the canned answer with no sources and does not call
\* RAGEngine.query, with or without a QA chain.
C3_CreatorQuestionShortCircuits ==
  (last.op = "ask" /\ MatchesCreatorPattern(QuestionText[last.arg])) =>
    /\ last.outcome = "ok"
    /\ Len(last.ret) = 1
    /\ AnswerText[last.ret[1].answer] = CannedAnswer
    /\ last.ret[1].sources = <<>>
    /\ ~last.queried
    /\ ~last.generated
    /\ memory = pre.memory

C3_Witness ==
  /\ last.op = "ask"
  /\ last.arg = "q_created"
  /\ pre.qa_chain # NoValue
  /\ last.outcome = "ok"

\* C4: a successful ask returns one entry (the clock reading, the question, the
\* answer, the sources) and the history after it is the history before it
\* with that entry appended; the history is at all times the entries returned
\* since it was last emptied, oldest first.
C4_AskAppendsOneTurn ==
  /\ conversation_history = asked
  /\ (last.op = "ask" /\ last.outcome = "ok") =>
       /\ Len(last.ret) = 1
       /\ last.ret[1].question = last.arg
       /\ last.ret[1].timestamp = clock - 1
       /\ conversation_history = Append(pre.conversation_history, last.ret[1])

C4_Witness ==
  /\ last.op = "ask"
  /\ last.outcome = "ok"
  /\ Len(conversation_history) = 2
  /\ conversation_history[1] # conversation_history[2]
  /\ last.generated

\* C5 as stated: load_documents of a path that names nothing fails with
\* FileNotFoundError and leaves the index as it was.
C5_MissingPathIsNotFound ==
  (last.op = "load_documents" /\ FS[last.arg].kind = "missing") =>
    /\ last.outcome = "error"
    /\ last.error.type = "FileNotFoundError"
    /\ IndexUnchanged

\* the name ends, in some letter case, with a supported extension
HasSupportedExtension(name) ==
  \E k \in 1..Len(supported_extensions) :
    /\ Len(name) >= Len(supported_extensions[k])
    /\ EqualIgnoringCase(
         SubSeq(name, Len(name) - Len(supported_extensions[k]) + 1, Len(name)),
         supported_extensions[k])

\* C6: load_documents of an existing file whose extension is not supported
\* fails with a ValueError that names the extension, runs no reader and leaves
\* the index as it was.
C6_UnsupportedExtensionRejected ==
  (/\ last.op = "load_documents"
   /\ FS[last.arg].kind = "file"
   /\ ~HasSupportedExtension(FS[last.arg].name)) =>
    /\ last.outcome = "error"
    /\ last.error.type = "ValueError"
    /\ last.error.text = "Unsupported file extension: "
    /\ Len(last.error.detail) > 1
    /\ last.error.detail[1] = "."
    /\ EqualIgnoringCase(
         last.error.detail,
         SubSeq(FS[last.arg].name,
                Len(FS[last.arg].name) - Len(last.error.detail) + 1,
                Len(FS[last.arg].name)))
    /\ ~last.reader_ran
    /\ IndexUnchanged

C6_Witness ==
  /\ last.op = "load_documents"
  /\ last.arg = "p_xyz"
  /\ last.outcome = "error"
  /\ pre.chroma # <<>>

\* C7: the persisted collection holds every chunk an ingestion has added, in
\* the order added; no call shortens or rewrites it, and the collection a
\* generating ask searches is all of it.
C7_IndexOnlyGrows ==
  /\ chroma = added
  /\ IsPrefix(pre.chroma, chroma)
  /\ last.generated => last.searched = added

C7_Witness ==
  /\ last.op = "ask"
  /\ last.generated
  /\ Len(last.searched) = 3
  /\ last.searched[1].metadata # last.searched[3].metadata

\* C8 as stated: a load_documents, process_text, ask or export_conversation
\* that ends with an error leaves the history, the memory and the index state
\* as they were.
C8_ErrorLeavesStateIntact ==
  (/\ last.outcome = "error"
   /\ last.op \in {"load_documents", "process_text", "ask", "export_conversation"}) =>
    /\ ConversationUnchanged
    /\ IndexUnchanged

StartsWith(s, prefix) ==
  /\ Len(s) >= Len(prefix)
  /\ SubSeq(s, 1, Len(prefix)) = prefix

\* the lines of a text file: the text cut at every "\n"
RECURSIVE SplitLines(_)
SplitLines(s) ==
  IF \A i \in 1..Len(s) : s[i] # "\n"
  THEN <<s>>
  ELSE LET i == CHOOSE j \in 1..Len(s) : s[j] = "\n" /\ \A h \in 1..(j - 1) : s[h] # "\n"
       IN <<SubSeq(s, 1, i - 1)>> \o SplitLines(SubSeq(s, i + 1, Len(s)))

\* the lines of a file equal to the delimiter
DelimiterLines(text) ==
  LET lines == SplitLines(text)
  IN Cardinality({i \in 1..Len(lines) : lines[i] = Delimiter})

\* the lines of a file that start with "Timestamp:"
TimestampLines(text) ==
  LET lines == SplitLines(text)
  IN Cardinality({i \in 1..Len(lines) :
                    StartsWith(lines[i], <<"T","i","m","e","s","t","a","m","p",":">>)})

\* C9 as stated: an export of a history of N turns writes a file with exactly
\* N delimiter lines and exactly N "Timestamp:" lines, and leaves the history
\* as it was.
C9_ExportCountsTurns ==
  (last.op = "export_conversation" /\ last.outcome = "ok") =>
    /\ DelimiterLines(last.written) = Len(conversation_history)
    /\ TimestampLines(last.written) = Len(conversation_history)
    /\ ConversationUnchanged

\* the (question, answer) pairs of the turns of a history
Exchanges(history) ==
  [i \in 1..Len(history) |-> [question |-> history[i].question, answer |-> history[i].answer]]

\* C10 as stated: the chat history a generating ask gives to the chat model
\* is the (question, answer) pairs of the conversation history at that ask.
C10_MemoryIsHistory ==
  (last.op = "ask" /\ last.generated) =>
    last.chat_history = Exchanges(pre.conversation_history)

\* the source is the text and the metadata of the chunk
IsSourceOf(source, chunk) ==
  /\ source.content = chunk.page_content
  /\ source.metadata = chunk.metadata

\* every source is one of the chunks, no chunk used twice
DrawnFrom(sources, chunks) ==
  \E f \in [1..Len(sources) -> 1..Len(chunks)] :
    /\ \A i, j \in 1..Len(sources) : i # j => f[i] # f[j]
    /\ \A i \in 1..Len(sources) : IsSourceOf(sources[i], chunks[f[i]])

\* C11: every turn of the conversation history has at most 3 sources, each
\* the text and metadata of a chunk an ingestion has added, and none when its
\* question holds a creator pattern; the sources of the turn an ask has just
\* appended are drawn from the chunks that ask searched, which are the chunks
\* the collection held before the ask.
C11_SourcesAreRetrieved ==
  /\ \A i \in 1..Len(conversation_history) :
       LET turn == conversation_history[i]
       IN /\ Len(turn.sources) <= 3
          /\ \A k \in 1..Len(turn.sources) :
               \E j \in 1..Len(added) : IsSourceOf(turn.sources[k], added[j])
          /\ MatchesCreatorPattern(QuestionText[turn.question]) => turn.sources = <<>>
  /\ (last.op = "ask" /\ last.outcome = "ok") =>
       /\ conversation_history[Len(conversation_history)].sources = last.ret[1].sources
       /\ last.generated =>
            /\ last.searched = pre.chroma
            /\ DrawnFrom(last.ret[1].sources, pre.chroma)

C11_Witness ==
  /\ last.op = "ask"
  /\ last.generated
  /\ Len(last.searched) = 4
  /\ Len(conversation_history) = 2
  /\ conversation_history[1].sources = <<>>
  /\ Len(conversation_history[2].sources) = 3
  /\ conversation_history[2].sources[1].metadata # conversation_history[2].sources[3].metadata

\* the entries the call that has just ended added to the collection
NewEntries == SubSeq(chroma, Len(pre.chroma) + 1, Len(chroma))

\* the names of the files a path stands for: itself, or the files below it
FileNames(p) ==
  IF FS[p].kind = "dir"
  THEN {FS[p].files[i].name : i \in 1..Len(FS[p].files)}
  ELSE {FS[p].name}

\* the entry is a piece of what the call was given
ComesFrom(entry, op, arg) ==
  IF op = "process_text"
  THEN Contains(entry.page_content, RawText[arg])
  ELSE entry.metadata.source \in FileNames(arg)

\* C12: constructing a new session leaves the persisted collection as it was
\* and holds no vector store yet; the first successful ingestion of a session
\* (it had no vector store) leaves the collection as the entries it held
\* before, in their order, followed by at least one new entry, every new entry
\* a piece of what was ingested; an ask answered next searches all of them.
C12_NewSessionAppends ==
  /\ last.op = "__init__" =>
       /\ chroma = pre.chroma
       /\ vector_store = NoValue
       /\ qa_chain = NoValue
  /\ (/\ last.op \in {"load_documents", "process_text"}
      /\ last.outcome = "ok"
      /\ pre.vector_store = NoValue
      /\ vector_store # NoValue) =>
       /\ IsPrefix(pre.chroma, chroma)
       /\ NewEntries # <<>>
       /\ \A i \in 1..Len(NewEntries) : ComesFrom(NewEntries[i], last.op, last.arg)
       /\ \A q \in Questions : \A response \in Responses(q) :
            response.generated => response.searched = pre.chroma \o NewEntries

C12_Witness ==
  /\ last.op = "process_text"
  /\ last.outcome = "ok"
  /\ pre.vector_store = NoValue
  /\ Len(pre.chroma) = 1
  /\ Len(chroma) = 3
  /\ pre.chroma[1].metadata # chroma[3].metadata

\* the files below a directory that a reader can read, with a supported
\* extension and some text
ReadableFiles(p) ==
  {i \in 1..Len(FS[p].files) :
     /\ FS[p].files[i].readable
     /\ HasSupportedExtension(FS[p].files[i].name)
     /\ \E k \in 1..Len(FS[p].files[i].pages) : FS[p].files[i].pages[k] # <<>>}

\* C13 as stated: a load_documents of a directory that gets through indexing
\* has added chunks of every file below it that is readable and has a
\* supported extension, whatever the other files are; the calls that end with
\* an error are those where indexing raised, and a directory without such a
\* file adds nothing and is no error.
C13_OnlyFailingFileSkipped ==
  (last.op = "load_documents" /\ FS[last.arg].kind = "dir") =>
    /\ last.outcome = "error" => last.error.type \in {"ProviderError", "ChainError"}
    /\ ReadableFiles(last.arg) = {} => (last.outcome = "ok" /\ NewEntries = <<>>)
    /\ last.outcome = "ok" =>
         \A i \in ReadableFiles(last.arg) :
           \E k \in 1..Len(NewEntries) :
             NewEntries[k].metadata.source = FS[last.arg].files[i].name

\* the questions that hold no creator pattern: those ask passes to query
OtherQuestions == {q \in Questions : ~MatchesCreatorPattern(QuestionText[q])}

\* C14: a load_documents or process_text, however it ends (indexed, raised,
\* nothing to index), leaves the conversation history and the engine's memory
\* as they were; after one that has indexed and rebuilt the chain, every
\* query the chat model answers next is given the exchanges remembered before
\* the ingestion; the chat history of every generating ask is the memory as
\* it was before that ask.
C14_IngestionKeepsConversation ==
  /\ last.op \in {"load_documents", "process_text"} =>
       /\ conversation_history = pre.conversation_history
       /\ memory = pre.memory
       /\ (last.outcome = "ok" /\ chroma # pre.chroma) =>
            \A q \in OtherQuestions : \A response \in query(q) :
              response.generated => response.chat_history = pre.memory
  /\ (last.op = "ask" /\ last.generated) => last.chat_history = pre.memory

C14_Witness ==
  /\ last.op = "process_text"
  /\ last.outcome = "ok"
  /\ pre.qa_chain # NoValue
  /\ qa_chain # NoValue
  /\ Len(pre.memory) = 1
  /\ Len(pre.conversation_history) = 1
  /\ Len(chroma) > Len(pre.chroma)

====
